---- MODULE Spec2Model ----
(***************************************************************************)
(* Backend proxy of the weather application (Backend/server.js, latest     *)
(* variant): the response cache, the upstream client (fetchWithTimeout,    *)
(* fetchWithRetries) and the four request handlers, as a state machine.    *)
(*                                                                         *)
(* Spec       the handlers running concurrently over the shared cache; each *)
(*            behaviour follows the requests to one endpoint (one cache    *)
(*            key): entries under different keys never affect each other  *)
(* ClientSpec one call of fetchWithRetries, with its fetchWithTimeout calls*)
(* ResampleSpec the series resampler of /api/marine, applied to one        *)
(*            upstream body                                                *)
(*                                                                         *)
(* A request is one the rate limiter has admitted; the payload computed    *)
(* from an upstream body is abstracted to a snapshot identity and the      *)
(* request that produced it (full, reduced, mock).                         *)
(***************************************************************************)
EXTENDS Integers, Sequences, FiniteSets, TLC

VARIABLES
    req,        \* per request slot: the handler invocation's position and locals
    cache,      \* the NodeCache: key -> entry (value, expiry time t)
    now,        \* the clock, in seconds
    ticks,      \* clock advances so far
    route,      \* the endpoint whose traffic the behaviour follows
    useMock,    \* process.env.USE_MOCK === 'true'
    call,       \* ClientSpec: one fetchWithRetries call
    mar,        \* ResampleSpec: one /api/marine request past its upstream fetch
    qry         \* ParamSpec: two requests and how their handlers' heads ended

vars == <<req, cache, now, ticks, route, useMock, call, mar, qry>>

(***************************************************************************)
(* Bounds of the model.                                                    *)
(***************************************************************************)
MaxReq == 2         \* request slots (handler invocations in flight or just answered)
MaxTicks == 3       \* clock advances per behaviour
MaxRetries == 3     \* ClientSpec: largest retries argument tried
MaxSteps == 2       \* ResampleSpec: largest pastSteps and forecastSteps tried
MaxPoints == 3      \* ResampleSpec: most rows of the upstream's hourly table

Req == 1..MaxReq

(***************************************************************************)
(* The response cache: new NodeCache({ stdTTL: 600, checkperiod: 120 }).   *)
(* Times are in seconds. An entry is live while its expiry time t has not  *)
(* passed (node-cache: expired when t < now); get() of an expired entry    *)
(* deletes it and misses; the periodic check deletes every expired entry.  *)
(***************************************************************************)
StdTTL == 60 * 10
AqTTL == 60 * 5
ClimateTTL == 60 * 60 * 24
MarineTTL == 60 * 5

Endpoints == {"forecast", "aq", "climate", "marine"}

TTL_StdEverywhere(e) == StdTTL

\* The TTL each handler's cache.set is called with (forecast: none, so stdTTL).
TTL(e) ==
    CASE e = "forecast" -> StdTTL
      [] e = "aq" -> AqTTL
      [] e = "climate" -> ClimateTTL
      [] e = "marine" -> MarineTTL

\* The clock advances in steps of half the TTL of the endpoint followed: a
\* request can arrive inside an entry's lifetime, at its expiry instant and after.
TickStep(e) == TTL(e) \div 2

NoVal == [kind |-> "none", data |-> 0, keys |-> {}]
Absent == [val |-> NoVal, t |-> -1]

Expired(e, clock) == e.t < clock

Live(c, k, clock) == c[k] # Absent /\ ~Expired(c[k], clock)

CacheGet_IgnoreExpiry(c, k, clock) == c[k].val

\* cache.get(key): the value, or NoVal (undefined) when absent or expired.
CacheGet(c, k, clock) == IF Live(c, k, clock) THEN c[k].val ELSE NoVal

\* cache.get(key) deletes the entry it finds expired.
CacheAfterGet(c, k, clock) ==
    IF c[k] # Absent /\ Expired(c[k], clock) THEN [c EXCEPT ![k] = Absent] ELSE c

\* cache.set(key, value, ttl): replaces the whole entry.
CacheSet(c, k, v, ttl, clock) == [c EXCEPT ![k] = [val |-> v, t |-> clock + ttl]]

\* The periodic check (checkperiod) deletes every expired entry.
CacheSweep(c, clock) ==
    [k \in DOMAIN c |-> IF c[k] # Absent /\ Expired(c[k], clock) THEN Absent ELSE c[k]]

\* One normalized parameter set per endpoint: its cache key.
CacheKey(e) == e

(***************************************************************************)
(* Upstream client.                                                        *)
(***************************************************************************)
\* Status classes an upstream answers with: 2xx, 4xx, 5xx.
Statuses == {200, 404, 503}

Ok(s) == s >= 200 /\ s <= 299

RespOut(s) == [type |-> "resp", status |-> s, name |-> "none"]
ErrOut(n) == [type |-> "err", status |-> 0, name |-> n]
NoErr == [name |-> "none", status |-> 0]

ReturnsResp_RetryOn4xx(o) == o.type = "resp" /\ Ok(o.status)

\* fetchWithRetries returns the response of an attempt: resp.ok || resp.status < 500.
ReturnsResp(o) == o.type = "resp" /\ (Ok(o.status) \/ o.status < 500)

\* lastErr of a failed attempt: the caught error, or Error('Upstream responded <status>').
AttemptErr(o) ==
    IF o.type = "resp" THEN [name |-> "Error", status |-> o.status]
    ELSE [name |-> o.name, status |-> 0]

Exhausted_OneTooFew(attempt, retries) == attempt >= retries

\* After attempt++: if (attempt > retries) break.
Exhausted(attempt, retries) == attempt > retries

Pow2(n) == IF n <= 0 THEN 1 ELSE 2 ^ n

\* Math.round of the non-negative fraction num / den (halves round up).
Round(num, den) == (2 * num + den) \div (2 * den)

BackoffDelay_DoubledFirst(backoffBase, attempt, rnd) ==
    Round(backoffBase * Pow2(attempt) * (3 * rnd.den + 2 * rnd.num), 4 * rnd.den)

\* Math.round(backoffBase * Math.pow(2, attempt - 1) * (0.75 + Math.random() * 0.5)),
\* attempt already incremented; rnd = num / den is Math.random()'s draw in [0, 1).
BackoffDelay(backoffBase, attempt, rnd) ==
    Round(backoffBase * Pow2(attempt - 1) * (3 * rnd.den + 2 * rnd.num), 4 * rnd.den)

\* Draws of Math.random() the model tries: the least, the middle, close to 1.
Randoms == {[num |-> 0, den |-> 1], [num |-> 1, den |-> 2], [num |-> 99, den |-> 100]}

\* fetchWithRetries' default backoffBase (no caller passes another).
DefaultBackoffBase == 300

\* backoffBase arguments the model tries: the default, and one whose products
\* with the jitter are not whole milliseconds.
Bases == {DefaultBackoffBase, 3}

\* The stages (upstream calls) of the handlers and how each is fetched:
\* retries >= 0 through fetchWithRetries, -1 a bare fetchWithTimeout.
Stages == {"nom", "met", "lw", "aq", "clim", "mar", "marSafe"}

Retries(stage) ==
    CASE stage = "nom" -> 2
      [] stage = "met" -> 2
      [] stage = "lw" -> 1
      [] OTHER -> -1

FirstStage(e) ==
    CASE e = "forecast" -> "nom"
      [] e = "aq" -> "aq"
      [] e = "climate" -> "clim"
      [] e = "marine" -> "mar"

(***************************************************************************)
(* Request handlers.                                                       *)
(***************************************************************************)
ForecastKeys == {"location", "lat", "lon", "forecast"}
AqKeys == {"lat", "lon", "sample", "category", "source"}
ClimateKeys == {"latitude", "longitude", "start_date", "end_date", "years",
                "annual", "trend", "baseline", "recent", "source"}
MarineKeys == {"latitude", "longitude", "source", "series15"}

PayloadKeys(e) ==
    CASE e = "forecast" -> ForecastKeys
      [] e = "aq" -> AqKeys
      [] e = "climate" -> ClimateKeys
      [] e = "marine" -> MarineKeys

\* An answer: the HTTP status, the body's cached and mock flags and payload, and
\* the time a 200 was sent.
NoResp == [status |-> 0, cached |-> FALSE, mock |-> FALSE, val |-> NoVal, at |-> 0]

\* A slot: pc where the invocation waits ("done": answered), stage the upstream
\* call it is in, attempt fetchWithRetries' counter, timer the timer armed for
\* it, resp its answer; and what it has done so far: saw what cache.get found,
\* metOut and lwOut how the full and the lightweight forecast request ended,
\* geocoded whether a place was found, later the invocations whose data
\* response arrived while this one was reading the body of its own.
IdleSlot ==
    [pc |-> "idle", ep |-> "none", stage |-> "none", attempt |-> 0,
     timer |-> "none", saw |-> "none",
     metOut |-> "none", lwOut |-> "none", geocoded |-> FALSE, resp |-> NoResp,
     later |-> {}]

\* res.status(s).json({ error: ... })
ErrorResp(s) ==
    [status |-> s, cached |-> FALSE, mock |-> FALSE, val |-> NoVal, at |-> 0]

\* res.json({ ...payload, cached, mock? })
OkResp(v, cached, mock, clock) ==
    [status |-> 200, cached |-> cached, mock |-> mock, val |-> v, at |-> clock]

CatchStatus_Always500(err) == 500

\* The catch block of every handler: AbortError -> 504, anything else -> 500.
CatchStatus(err) == IF err.name = "AbortError" THEN 504 ELSE 500


\* fetchWithTimeout is entered: the deadline timer is armed and the fetch is in flight.
StartFetch(slot, stage) ==
    [slot EXCEPT !.pc = "fetch", !.stage = stage, !.attempt = 0, !.timer = "deadline"]

\* What a step of a handler leaves behind: its slot and the cache.
Eff(slot, c) == [slot |-> slot, cache |-> c]

\* The handler has answered: its locals are gone, the record of what it did stays.
Answer(slot, resp, c) ==
    Eff([slot EXCEPT !.pc = "done", !.stage = "none", !.attempt = 0,
                     !.timer = "none", !.resp = resp], c)

\* res.status(s).json({ error }): nothing is cached.
ErrorAnswer(slot, s, c) == Answer(slot, ErrorResp(s), c)

MockAnswer_Cached(slot, c, n, clock) ==
    LET v == [kind |-> "mock", data |-> n, keys |-> ForecastKeys]
    IN Answer(slot, OkResp(v, FALSE, TRUE, clock),
              CacheSet(c, CacheKey(slot.ep), v, TTL(slot.ep), clock))

MockAnswer_NoFlag(slot, c, n, clock) ==
    LET v == [kind |-> "mock", data |-> n, keys |-> ForecastKeys]
    IN Answer(slot, OkResp(v, FALSE, FALSE, clock), c)

\* generateMockForecast, then res.json({ ...payload, cached: false, mock: true }):
\* the handler returns before cache.set. The mock's values are fresh (Date.now,
\* Math.random): a new data snapshot.
MockAnswer(slot, c, n, clock) ==
    LET v == [kind |-> "mock", data |-> n, keys |-> ForecastKeys]
    IN Answer(slot, OkResp(v, FALSE, TRUE, clock), c)

StoreAndAnswer_NoWrite(slot, kind, c, n, clock) ==
    LET v == [kind |-> kind, data |-> n, keys |-> PayloadKeys(slot.ep)]
    IN Answer(slot, OkResp(v, FALSE, FALSE, clock), c)

StoreAndAnswer_FirstWriteWins(slot, kind, c, n, clock) ==
    LET v == [kind |-> kind, data |-> n, keys |-> PayloadKeys(slot.ep)]
        k == CacheKey(slot.ep)
    IN Answer(slot, OkResp(v, FALSE, FALSE, clock),
              IF Live(c, k, clock) THEN c ELSE CacheSet(c, k, v, TTL(slot.ep), clock))

\* cache.set(cacheKey, payload[, ttl]); res.json({ ...payload, cached: false }).
\* kind: which upstream request the payload's data came from.
StoreAndAnswer(slot, kind, c, n, clock) ==
    LET v == [kind |-> kind, data |-> n, keys |-> PayloadKeys(slot.ep)]
    IN Answer(slot, OkResp(v, FALSE, FALSE, clock),
              CacheSet(c, CacheKey(slot.ep), v, TTL(slot.ep), clock))

HitAnswer_NoFlag(slot, v, c, n, clock) ==
    Answer(slot, OkResp(v, FALSE, FALSE, clock), c)

HitAnswer_Refresh(slot, v, c, n, clock) ==
    Answer(slot, OkResp(v, TRUE, FALSE, clock),
           CacheSet(c, CacheKey(slot.ep), v, TTL(slot.ep), clock))

\* if (cached) return res.json({ ...cached, cached: true })
HitAnswer(slot, v, c, n, clock) ==
    Answer(slot, OkResp(v, TRUE, FALSE, clock), c)

OnThrow_NoFallback(slot, err, why, c, n, clock) ==
    CASE slot.stage = "met" ->
            Eff([StartFetch(slot, "lw") EXCEPT !.metOut = why], c)
      [] OTHER -> ErrorAnswer([slot EXCEPT !.lwOut = why], CatchStatus(err), c)

\* An upstream call of the handler threw err (why: "exhausted" fetchWithRetries
\* gave up, "failed" a bare fetchWithTimeout threw, "non2xx" the handler's own
\* throw on !resp.ok, "badbody" resp.json() rejected). Forecast: the full request
\* falls back to the lightweight one, the lightweight one to the mock; every
\* other call ends in the handler's catch block.
OnThrow(slot, err, why, c, n, clock) ==
    CASE slot.stage = "met" ->
            Eff([StartFetch(slot, "lw") EXCEPT !.metOut = why], c)
      [] slot.stage = "lw" ->
            MockAnswer([slot EXCEPT !.lwOut = why], c, n, clock)
      [] OTHER -> ErrorAnswer(slot, CatchStatus(err), c)

OnResp_NoSafeRetry(slot, st, c, n, clock) ==
    IF Ok(st) THEN Eff([slot EXCEPT !.pc = "body", !.attempt = 0], c)
    ELSE ErrorAnswer(slot, 500, c)

\* An upstream call handed the handler a response with status st: a 2xx body is
\* read next (resp.json()); marine retries a non-2xx once with the safe set;
\* everywhere else a non-2xx is thrown as an Error.
OnResp(slot, st, c, n, clock) ==
    IF Ok(st) THEN Eff([slot EXCEPT !.pc = "body", !.attempt = 0], c)
    ELSE IF slot.stage = "mar" THEN Eff(StartFetch(slot, "marSafe"), c)
    ELSE OnThrow(slot, [name |-> "Error", status |-> st], "non2xx", c, n, clock)

Settle_KeepTimer(f) == f

\* fetchWithTimeout, once fetch has resolved or rejected: clearTimeout(id).
\* f: whatever holds the call's timer (a handler's slot, a fetchWithRetries call).
Settle(f) == [f EXCEPT !.timer = "none"]

\* The fetch of the slot's current upstream call ended with outcome o.
OnOutcome(slot, o, c, n, clock) ==
    LET R == Retries(slot.stage)
        s == Settle(slot)
    IN IF R < 0
       THEN IF o.type = "resp" THEN OnResp(s, o.status, c, n, clock)
            ELSE OnThrow(s, AttemptErr(o), "failed", c, n, clock)
       ELSE IF ReturnsResp(o) THEN OnResp(s, o.status, c, n, clock)
       ELSE LET a == slot.attempt + 1
                lastErr == AttemptErr(o)
            IN IF Exhausted(a, R)
               THEN OnThrow(s, lastErr, "exhausted", c, n, clock)
               ELSE Eff([s EXCEPT !.pc = "backoff", !.timer = "backoff", !.attempt = a], c)

\* What resp.json() of a 2xx response can yield, per upstream call.
BodyContents(stage) ==
    CASE stage = "nom" -> {"empty", "place"}
      [] stage = "clim" -> {"data", "nodaily", "few"}
      [] OTHER -> {"data"}

\* resp.json() resolved with content.
OnBody(slot, content, c, n, clock) ==
    CASE slot.stage = "nom" ->
            IF content = "empty" THEN ErrorAnswer(slot, 404, c)
            ELSE Eff([StartFetch(slot, "met") EXCEPT !.geocoded = TRUE], c)
      [] slot.stage = "met" -> StoreAndAnswer(slot, "full", c, n, clock)
      [] slot.stage = "lw" -> StoreAndAnswer(slot, "reduced", c, n, clock)
      [] slot.stage = "aq" -> StoreAndAnswer(slot, "full", c, n, clock)
      [] slot.stage = "clim" ->
            IF content = "data" THEN StoreAndAnswer(slot, "full", c, n, clock)
            ELSE ErrorAnswer(slot, 502, c)
      [] slot.stage = "mar" -> StoreAndAnswer(slot, "full", c, n, clock)
      [] slot.stage = "marSafe" -> StoreAndAnswer(slot, "reduced", c, n, clock)

\* What the cache holds under k when a request looks it up.
Lookup(c, k, clock) ==
    IF c[k] = Absent THEN "absent" ELSE IF Expired(c[k], clock) THEN "stale" ELSE "live"

\* The synchronous head of a handler: validation, cache key, cache.get, the hit
\* answer, the forced mock, or the first upstream call.
OnArrive(e, valid, c, n, clock, mockEnv) ==
    LET k == CacheKey(e)
        slot == [IdleSlot EXCEPT !.ep = e]
        seen == [slot EXCEPT !.saw = Lookup(c, k, clock)]
        got == CacheGet(c, k, clock)
        after == CacheAfterGet(c, k, clock)
    IN IF ~valid THEN ErrorAnswer(slot, 400, c)
       ELSE IF got # NoVal THEN HitAnswer(seen, got, after, n, clock)
       ELSE IF e = "forecast" /\ mockEnv THEN MockAnswer(seen, after, n, clock)
       ELSE Eff(StartFetch(seen, FirstStage(e)), after)

(***************************************************************************)
(* The series resampler of /api/marine. Times are in minutes (the code's   *)
(* are in milliseconds); numbers are exact fractions num / den (the code's *)
(* are doubles); an hourly or minutely table is a sequence of rows (the    *)
(* upstream sends one array per column).                                   *)
(***************************************************************************)
\* stepMs = 15 * 60 * 1000, in minutes.
StepMin == 15

\* null / undefined, and the number n.
Null == [present |-> FALSE, num |-> 0, den |-> 1]
Num(n) == [present |-> TRUE, num |-> n, den |-> 1]

RECURSIVE Gcd(_, _)
Gcd(a, b) == IF b = 0 THEN a ELSE Gcd(b, a % b)

\* The number num / den (den > 0), in lowest terms.
Rat(num, den) ==
    LET g == Gcd(IF num < 0 THEN -num ELSE num, den)
    IN [present |-> TRUE, num |-> num \div g, den |-> den \div g]

\* new Date(ts).toISOString(): the timestamp broken into day, hour, minute.
ToISO(ts) == [d |-> ts \div 1440, h |-> (ts % 1440) \div 60, mi |-> ts % 60]

\* new Date(t).getTime() of such a time.
GetTime(iso) == iso.d * 1440 + iso.h * 60 + iso.mi

inSupportedRegion(lat, lon) ==
    \/ lat >= 15 /\ lat <= 75 /\ lon >= -170 /\ lon <= -50
    \/ lat >= 35 /\ lat <= 70 /\ lon >= -10 /\ lon <= 40

\* series15 = null.
NoSeries ==
    [null |-> TRUE, time |-> <<>>, wave_height |-> <<>>, windspeed_10m |-> <<>>,
     shortwave_radiation |-> <<>>, significant_wave_period |-> <<>>,
     swell_height |-> <<>>]

Bucket_NoFloor(t) == t

\* Math.floor(t / stepMs) * stepMs
Bucket(t) == (t \div StepMin) * StepMin

RECURSIVE SortedSeq(_)
\* Object.keys(buckets).map(k => parseInt(k, 10)).sort((a, b) => a - b)
SortedSeq(S) ==
    IF S = {} THEN <<>>
    ELSE LET m == CHOOSE x \in S : \A y \in S : x <= y
         IN <<m>> \o SortedSeq(S \ {m})

RECURSIVE SumVals(_, _)
\* buckets[bucket].sum over the samples I: an absent radiation value counts as 0.
SumVals(samples, I) ==
    IF I = {} THEN 0
    ELSE LET i == CHOOSE x \in I : TRUE
             val == IF samples[i].sw.present THEN samples[i].sw.num ELSE 0
         IN val + SumVals(samples, I \ {i})

PathA_NoWindow(samples, startTs, endTs) ==
    LET used == 1..Len(samples)
        of(k) == {i \in used : Bucket(GetTime(samples[i].time)) = k}
        keys == SortedSeq({Bucket(GetTime(samples[i].time)) : i \in used})
    IN [NoSeries EXCEPT
          !.null = FALSE,
          !.time = [j \in 1..Len(keys) |-> ToISO(keys[j])],
          !.shortwave_radiation =
              [j \in 1..Len(keys) |->
                  Rat(SumVals(samples, of(keys[j])), Cardinality(of(keys[j])))]]

\* Path A: the minutely samples inside [startTs, endTs], averaged per
\* 15-minute bucket; only time and shortwave_radiation are filled.
PathA(samples, startTs, endTs) ==
    LET used == {i \in 1..Len(samples) :
                    ~(GetTime(samples[i].time) < startTs \/ GetTime(samples[i].time) > endTs)}
        of(k) == {i \in used : Bucket(GetTime(samples[i].time)) = k}
        keys == SortedSeq({Bucket(GetTime(samples[i].time)) : i \in used})
    IN [NoSeries EXCEPT
          !.null = FALSE,
          !.time = [j \in 1..Len(keys) |-> ToISO(keys[j])],
          !.shortwave_radiation =
              [j \in 1..Len(keys) |->
                  Rat(SumVals(samples, of(keys[j])), Cardinality(of(keys[j])))]]

\* points = times.map((t, i) => ({ ts, wave, wind, sw, period, swell }))
Points(hourly) ==
    [i \in 1..Len(hourly) |->
        [ts |-> GetTime(hourly[i].time),
         wave |-> hourly[i].wave_height,
         wind |-> hourly[i].windspeed_10m,
         sw |-> hourly[i].shortwave_radiation,
         period |-> hourly[i].significant_wave_period,
         swell |-> hourly[i].swell_height]]

RECURSIVE Locate(_, _, _)
\* while (i < points.length - 1 && points[i+1].ts < ts) i++   (i from 1 here)
Locate(points, ts, i) ==
    IF i < Len(points) /\ points[i + 1].ts < ts THEN Locate(points, ts, i + 1) ELSE i

Mix_StepToNext(aVal, bVal, dn, dd) ==
    IF ~aVal.present \/ ~bVal.present
    THEN (IF aVal.present THEN aVal ELSE bVal)
    ELSE bVal

Mix_AbsentAsZero(aVal, bVal, dn, dd) ==
    LET a == IF aVal.present THEN aVal ELSE Num(0)
        b == IF bVal.present THEN bVal ELSE Num(0)
    IN Rat(a.num * b.den * dd + (b.num * a.den - a.num * b.den) * dn, a.den * b.den * dd)

\* mix(aVal, bVal) with frac = dn / dd.
Mix(aVal, bVal, dn, dd) ==
    IF ~aVal.present \/ ~bVal.present
    THEN (IF aVal.present THEN aVal ELSE bVal)
    ELSE Rat(aVal.num * bVal.den * dd + (bVal.num * aVal.den - aVal.num * bVal.den) * dn,
             aVal.den * bVal.den * dd)

\* What interp returns from one point.
Pick(p) == [wave |-> p.wave, wind |-> p.wind, sw |-> p.sw]

interp_FirstPointOnly(points, ts) ==
    IF Len(points) = 0 THEN [wave |-> Null, wind |-> Null, sw |-> Null]
    ELSE Pick(points[1])

interp(points, ts) ==
    LET n == Len(points)
    IN IF n = 0 THEN [wave |-> Null, wind |-> Null, sw |-> Null]
       ELSE IF ts <= points[1].ts THEN Pick(points[1])
       ELSE IF ts >= points[n].ts THEN Pick(points[n])
       ELSE LET i == Locate(points, ts, 1)
                a == points[i]
            IN IF i + 1 > n \/ a.ts = points[i + 1].ts THEN Pick(a)
               ELSE LET b == points[i + 1]
                        dn == ts - a.ts
                        dd == b.ts - a.ts
                    IN [wave |-> Mix(a.wave, b.wave, dn, dd),
                        wind |-> Mix(a.wind, b.wind, dn, dd),
                        sw |-> Mix(a.sw, b.sw, dn, dd)]

Grid_QuarterHours(startTs, endTs) ==
    [j \in 1..((endTs - startTs) \div StepMin + 1) |-> Bucket(startTs) + (j - 1) * StepMin]

\* for (let ts = startTs; ts <= endTs; ts += stepMs)
Grid(startTs, endTs) ==
    [j \in 1..((endTs - startTs) \div StepMin + 1) |-> startTs + (j - 1) * StepMin]

\* Path B: the hourly points interpolated on the 15-minute grid; v.period and
\* v.swell are not among interp's results, so undefined is pushed for them.
PathB(points, startTs, endTs) ==
    LET grid == Grid(startTs, endTs)
        G == DOMAIN grid
    IN [null |-> FALSE,
        time |-> [j \in G |-> ToISO(grid[j])],
        wave_height |-> [j \in G |-> interp(points, grid[j]).wave],
        windspeed_10m |-> [j \in G |-> interp(points, grid[j]).wind],
        shortwave_radiation |-> [j \in G |-> interp(points, grid[j]).sw],
        significant_wave_period |-> [j \in G |-> Null],
        swell_height |-> [j \in G |-> Null]]

PathTaken_NoRegion(json, lat, lon, pastSteps, forecastSteps) ==
    IF json.minutely.has THEN "A"
    ELSE IF forecastSteps + pastSteps > 0 THEN "B"
    ELSE "none"

\* Which resampling runs: "A" bucket aggregation, "B" interpolation, "none".
PathTaken(json, lat, lon, pastSteps, forecastSteps) ==
    IF json.minutely.has /\ inSupportedRegion(lat, lon) THEN "A"
    ELSE IF forecastSteps + pastSteps > 0 THEN "B"
    ELSE "none"

\* series15 of the marine payload, the request being handled at time clock.
Series15(json, lat, lon, pastSteps, forecastSteps, clock) ==
    LET startTs == clock - pastSteps * StepMin
        endTs == clock + forecastSteps * StepMin
        path == PathTaken(json, lat, lon, pastSteps, forecastSteps)
    IN CASE path = "A" -> PathA(json.minutely.samples, startTs, endTs)
         [] path = "B" -> PathB(Points(json.hourly), startTs, endTs)
         [] OTHER -> NoSeries

\* A marine request whose upstream body json has been read; series15 and path
\* are filled in when it is answered.  hit is Date.now() of a later request
\* with the same parameters that is answered from the cache.
NoMar ==
    [pc |-> "off", lat |-> 0, lon |-> 0, pastSteps |-> 0, forecastSteps |-> 0,
     clock |-> 0, json |-> [minutely |-> [has |-> FALSE, samples |-> <<>>], hourly |-> <<>>],
     series15 |-> NoSeries, path |-> "none", hit |-> 0]

(***************************************************************************)
(* Request parameters and cache keys.  A query parameter is a string or    *)
(* undefined; a string is a sequence of characters, so that trimming, case *)
(* folding, parsing and formatting are computed character by character.    *)
(* Fixed pieces of a key ("aq:", "NaN") are single tokens.                 *)
(***************************************************************************)
\* req.query.x when the parameter is not given, and when it is the string s.
Undefined == [def |-> FALSE, s |-> <<>>]
Str(s) == [def |-> TRUE, s |-> s]

Truthy_ZeroIsFalsy(v) == v.def /\ v.s # <<>> /\ v.s # <<"0">>

\* Truthiness of a query parameter: a string that is not empty.
Truthy(v) == v.def /\ v.s # <<>>

\* a || b
Or(a, b) == IF Truthy(a) THEN a ELSE b

RECURSIVE TrimStart(_)
TrimStart(s) == IF s # <<>> /\ s[1] = " " THEN TrimStart(Tail(s)) ELSE s

RECURSIVE TrimEnd(_)
TrimEnd(s) ==
    IF s # <<>> /\ s[Len(s)] = " " THEN TrimEnd(SubSeq(s, 1, Len(s) - 1)) ELSE s

\* String.prototype.trim
Trim(s) == TrimEnd(TrimStart(s))

LowerOf(c) ==
    CASE c = "A" -> "a"
      [] c = "I" -> "i"
      [] c = "P" -> "p"
      [] c = "R" -> "r"
      [] c = "S" -> "s"
      [] OTHER -> c

\* String.prototype.toLowerCase
toLowerCase(s) == [i \in 1..Len(s) |-> LowerOf(s[i])]

DigitChars == <<"0", "1", "2", "3", "4", "5", "6", "7", "8", "9">>
IsDigit(c) == \E d \in 1..10 : DigitChars[d] = c
DigitVal(c) == (CHOOSE d \in 1..10 : DigitChars[d] = c) - 1

\* The number of digits s starts with, and the value of a string of digits.
RECURSIVE LeadingDigits(_)
LeadingDigits(s) == IF s # <<>> /\ IsDigit(s[1]) THEN 1 + LeadingDigits(Tail(s)) ELSE 0

RECURSIVE DigitsVal(_)
DigitsVal(s) ==
    IF s = <<>> THEN 0
    ELSE 10 * DigitsVal(SubSeq(s, 1, Len(s) - 1)) + DigitVal(s[Len(s)])

\* A JavaScript number: NaN, or the fraction num / den in lowest terms.
NaN == [nan |-> TRUE, num |-> 0, den |-> 1]
JsNumber(num, den) ==
    LET r == Rat(num, den) IN [nan |-> FALSE, num |-> r.num, den |-> r.den]

\* parseFloat(v): leading blanks, a sign, digits, a point and digits; what
\* follows is ignored; NaN without a digit (and for undefined).
parseFloat(v) ==
    IF ~v.def THEN NaN
    ELSE LET t == TrimStart(v.s)
             signed == t # <<>> /\ t[1] \in {"+", "-"}
             neg == t # <<>> /\ t[1] = "-"
             u == IF signed THEN Tail(t) ELSE t
             ni == LeadingDigits(u)
             rest == SubSeq(u, ni + 1, Len(u))
             nf == IF rest # <<>> /\ rest[1] = "." THEN LeadingDigits(Tail(rest)) ELSE 0
             mag == DigitsVal(SubSeq(u, 1, ni)) * 10 ^ nf + DigitsVal(SubSeq(rest, 2, nf + 1))
         IN IF ni + nf = 0 THEN NaN
            ELSE JsNumber(IF neg THEN -mag ELSE mag, 10 ^ nf)

\* parseInt(v, 10): leading blanks, a sign, digits; NaN without a digit.
parseInt(v) ==
    IF ~v.def THEN NaN
    ELSE LET t == TrimStart(v.s)
             signed == t # <<>> /\ t[1] \in {"+", "-"}
             neg == t # <<>> /\ t[1] = "-"
             u == IF signed THEN Tail(t) ELSE t
             ni == LeadingDigits(u)
             mag == DigitsVal(SubSeq(u, 1, ni))
         IN IF ni = 0 THEN NaN ELSE JsNumber(IF neg THEN -mag ELSE mag, 1)

\* Math.max(a, b) and Math.min(a, b): NaN if either is.
MathMax(a, b) ==
    IF a.nan \/ b.nan THEN NaN
    ELSE IF a.num * b.den >= b.num * a.den THEN a ELSE b
MathMin(a, b) ==
    IF a.nan \/ b.nan THEN NaN
    ELSE IF a.num * b.den <= b.num * a.den THEN a ELSE b

RECURSIVE IntString(_)
IntString(n) ==
    IF n < 10 THEN <<DigitChars[n + 1]>>
    ELSE IntString(n \div 10) \o <<DigitChars[(n % 10) + 1]>>

\* `${n}` of a number with at most one decimal place: "10" for 10.0.
NumberText(n) ==
    IF n.nan THEN <<"NaN">>
    ELSE LET tenths == (n.num * 10) \div n.den
             mag == IF tenths < 0 THEN -tenths ELSE tenths
         IN (IF tenths < 0 THEN <<"-">> ELSE <<>>)
            \o IntString(mag \div 10)
            \o (IF mag % 10 = 0 THEN <<>> ELSE <<".", DigitChars[(mag % 10) + 1]>>)

\* req.query of a request without parameters.
NoQuery ==
    [city |-> Undefined, lat |-> Undefined, lon |-> Undefined, latitude |-> Undefined,
     longitude |-> Undefined, years |-> Undefined, forecast_minutely_15 |-> Undefined,
     past_minutely_15 |-> Undefined]

\* How the head of a handler ends: with the 400 answer, or with the cache key
\* it goes on to look up (cache.get called: looked).
Rejected == [status |-> 400, key |-> <<>>, looked |-> FALSE]
Proceeds(key) == [status |-> 0, key |-> key, looked |-> TRUE]

\* /api/forecast: city trimmed, the key in lower case.
forecastHead(q) ==
    LET city == Trim(Or(q.city, Str(<<>>)).s)
    IN IF city = <<>> THEN Rejected
       ELSE Proceeds(<<"forecast:">> \o toLowerCase(city))

\* /api/air-quality: lat and lon are used as the strings they came as.
airQualityHead(q) ==
    LET lat == Or(q.lat, q.latitude)
        lon == Or(q.lon, q.longitude)
    IN IF ~Truthy(lat) \/ ~Truthy(lon) THEN Rejected
       ELSE Proceeds(<<"aq:">> \o lat.s \o <<":">> \o lon.s)

\* /api/climate: lat and lon as strings, years parsed, defaulted and clamped.
climateHead(q) ==
    LET lat == Or(q.lat, q.latitude)
        lon == Or(q.lon, q.longitude)
        parsed == parseInt(Or(q.years, Str(<<"3", "0">>)))
        years == IF parsed.nan \/ parsed.num = 0 THEN JsNumber(30, 1) ELSE parsed
        clampYears == MathMin(MathMax(years, JsNumber(10, 1)), JsNumber(100, 1))
    IN IF ~Truthy(lat) \/ ~Truthy(lon) THEN Rejected
       ELSE Proceeds(<<"climate:">> \o lat.s \o <<":">> \o lon.s \o <<":">>
                     \o NumberText(clampYears))

\* /api/marine: lat and lon parsed with parseFloat, the steps with parseInt.
marineHead(q) ==
    LET lat == parseFloat(Or(q.lat, q.latitude))
        lon == parseFloat(Or(q.lon, q.longitude))
        forecastSteps ==
            MathMax(JsNumber(0, 1), parseInt(Or(q.forecast_minutely_15, Str(<<"9", "6">>))))
        pastSteps ==
            MathMax(JsNumber(0, 1), parseInt(Or(q.past_minutely_15, Str(<<"0">>))))
    IN IF lat.nan \/ lon.nan THEN Rejected
       ELSE Proceeds(<<"marine:">> \o NumberText(lat) \o <<":">> \o NumberText(lon) \o <<":">>
                     \o NumberText(forecastSteps) \o <<":">> \o NumberText(pastSteps))

\* The head of the handler of endpoint e, given req.query.
HandlerHead(e, q) ==
    CASE e = "forecast" -> forecastHead(q)
      [] e = "aq" -> airQualityHead(q)
      [] e = "climate" -> climateHead(q)
      [] e = "marine" -> marineHead(q)

\* A request received by ParamSpec and how its handler's head ended.
NoHandled ==
    [pc |-> "none", ep |-> "none", query |-> NoQuery, status |-> 0, key |-> <<>>,
     looked |-> FALSE]

NoQry == [a |-> NoHandled, b |-> NoHandled]

(***************************************************************************)
(* Spec: the handlers over the shared cache.                               *)
(***************************************************************************)
NoOut == [type |-> "none", status |-> 0, name |-> "none"]

\* A fetchWithRetries call: its arguments retries and backoffBase, its locals
\* attempt and lastErr, pc where it waits, timer the timer armed, signal whether
\* the current attempt's AbortController has aborted; and what it has done:
\* calls the fetches started, outs how each ended, waits the backoff delays
\* slept, ret the response returned, thrown the error thrown.
NoCall ==
    [pc |-> "off", retries |-> 0, backoffBase |-> 0, attempt |-> 0, lastErr |-> NoErr,
     timer |-> "none", signal |-> FALSE, calls |-> 0, outs |-> <<>>, waits |-> <<>>,
     ret |-> NoOut, thrown |-> NoErr]

HInit ==
    /\ req = [r \in Req |-> IdleSlot]
    /\ cache = [k \in {CacheKey(e) : e \in Endpoints} |-> Absent]
    /\ now = 0
    /\ ticks = 0
    /\ route \in Endpoints
    /\ useMock \in BOOLEAN

Init == HInit /\ call = NoCall /\ mar = NoMar /\ qry = NoQry

\* The identity of a new data snapshot (an upstream body, a generated mock): it
\* differs from every snapshot still held in the cache or in an answer.
DataIds == 1..(Cardinality(Endpoints) + MaxReq + 1)

DataInUse ==
    {cache[k].val.data : k \in DOMAIN cache} \cup {req[r].resp.val.data : r \in Req}

FreshData == CHOOSE n \in DataIds \ DataInUse : \A m \in DataIds \ DataInUse : n <= m

\* Invocation q awaits resp.json() of a response that carries the data of its
\* payload (the geocoder's response does not).
ReadingData(q) == req[q].pc = "body" /\ req[q].stage # "nom"

\* The order in which the awaited fetches resolved, kept in the slots: when a
\* data response arrives for r, every invocation still reading the body of an
\* earlier one notes r as later.
Track(r, slot, q) ==
    IF slot.pc = "body" /\ slot.stage # "nom" /\ ReadingData(q)
    THEN [req[q] EXCEPT !.later = @ \cup {r}]
    ELSE req[q]

\* A step of invocation r takes effect; r's own note ends with the step.
Apply(r, eff) ==
    /\ req' = [q \in Req |->
                  IF q = r THEN [eff.slot EXCEPT !.later = {}]
                  ELSE Track(r, eff.slot, q)]
    /\ cache' = eff.cache

\* A request arrives and runs up to its answer or its first await.
Arrive(r, e, valid) ==
    /\ req[r].pc \in {"idle", "done"}
    /\ \A q \in Req : q < r => req[q].pc # "idle"
    /\ e = route
    /\ Apply(r, OnArrive(e, valid, cache, FreshData, now, useMock))
    /\ UNCHANGED <<now, ticks, route, useMock, call, mar, qry>>

\* The upstream answers the pending fetch with status st.
Responds(r, st) ==
    /\ req[r].pc = "fetch"
    /\ Apply(r, OnOutcome(req[r], RespOut(st), cache, FreshData, now))
    /\ UNCHANGED <<now, ticks, route, useMock, call, mar, qry>>

\* The pending fetch fails at network level.
NetFails(r) ==
    /\ req[r].pc = "fetch"
    /\ Apply(r, OnOutcome(req[r], ErrOut("TypeError"), cache, FreshData, now))
    /\ UNCHANGED <<now, ticks, route, useMock, call, mar, qry>>

\* The deadline timer fires: controller.abort() rejects the pending fetch.
TimerFires(r) ==
    /\ req[r].pc = "fetch"
    /\ req[r].timer = "deadline"
    /\ Apply(r, OnOutcome(req[r], ErrOut("AbortError"), cache, FreshData, now))
    /\ UNCHANGED <<now, ticks, route, useMock, call, mar, qry>>

\* The backoff timer fires: the next attempt's fetchWithTimeout starts.
BackoffElapsed(r) ==
    /\ req[r].pc = "backoff"
    /\ req' = [req EXCEPT ![r] = [@ EXCEPT !.pc = "fetch", !.timer = "deadline"]]
    /\ UNCHANGED <<cache, now, ticks, route, useMock, call, mar, qry>>

\* The body of a 2xx response arrives and parses.
BodyArrives(r, content) ==
    /\ req[r].pc = "body"
    /\ content \in BodyContents(req[r].stage)
    /\ Apply(r, OnBody(req[r], content, cache, FreshData, now))
    /\ UNCHANGED <<now, ticks, route, useMock, call, mar, qry>>

\* Reading the body fails (connection lost, not JSON): resp.json() rejects.
BodyFails(r) ==
    /\ req[r].pc = "body"
    /\ Apply(r, OnThrow(req[r], [name |-> "SyntaxError", status |-> 0], "badbody",
                        cache, FreshData, now))
    /\ UNCHANGED <<now, ticks, route, useMock, call, mar, qry>>

\* Time passes.
Tick ==
    /\ ticks < MaxTicks
    /\ ticks' = ticks + 1
    /\ now' = now + TickStep(route)
    /\ UNCHANGED <<req, cache, route, useMock, call, mar, qry>>

\* node-cache's periodic check.
Sweep ==
    /\ \E k \in DOMAIN cache : cache[k] # Absent /\ Expired(cache[k], now)
    /\ cache' = CacheSweep(cache, now)
    /\ UNCHANGED <<req, now, ticks, route, useMock, call, mar, qry>>

Next ==
    \/ \E r \in Req, e \in Endpoints, valid \in BOOLEAN : Arrive(r, e, valid)
    \/ \E r \in Req, st \in Statuses : Responds(r, st)
    \/ \E r \in Req : NetFails(r)
    \/ \E r \in Req : TimerFires(r)
    \/ \E r \in Req : BackoffElapsed(r)
    \/ \E r \in Req, content \in {"empty", "place", "data", "nodaily", "few"} :
          BodyArrives(r, content)
    \/ \E r \in Req : BodyFails(r)
    \/ Tick
    \/ Sweep

Spec == Init /\ [][Next]_vars

(***************************************************************************)
(* ClientSpec: one call fetchWithRetries(url, opts, timeout, retries,      *)
(* backoffBase) against an upstream that may answer each attempt with any  *)
(* status, fail it at network level, or stay silent until the deadline.    *)
(***************************************************************************)
\* Statuses the upstream answers an attempt with: 2xx, 3xx, 4xx, 5xx.
ClientStatuses == Statuses \cup {304, 500}

\* fetchWithTimeout is entered: a new AbortController, the deadline timer armed.
NextFetch(f) ==
    [f EXCEPT !.pc = "fetch", !.timer = "deadline", !.signal = FALSE,
              !.calls = f.calls + 1]

\* let attempt = 0, lastErr = null; the loop's first fetchWithTimeout.
NewCall(retries, backoffBase) ==
    NextFetch([NoCall EXCEPT !.retries = retries, !.backoffBase = backoffBase])

\* The current attempt's fetch ended with outcome o; rnd is the draw of
\* Math.random() should a backoff follow.
ClientOutcome(f, o, rnd) ==
    LET s == [Settle(f) EXCEPT !.outs = Append(f.outs, o)]
    IN IF ReturnsResp(o) THEN [s EXCEPT !.pc = "returned", !.ret = o]
       ELSE LET a == f.attempt + 1
                t == [s EXCEPT !.attempt = a, !.lastErr = AttemptErr(o)]
            IN IF Exhausted(a, f.retries)
               THEN [t EXCEPT !.pc = "thrown", !.thrown = t.lastErr]
               ELSE [t EXCEPT !.pc = "backoff", !.timer = "backoff",
                              !.waits = Append(f.waits, BackoffDelay(f.backoffBase, a, rnd))]

ClientInit ==
    /\ req = [r \in Req |-> IdleSlot]
    /\ cache = [k \in {CacheKey(e) : e \in Endpoints} |-> Absent]
    /\ now = 0
    /\ ticks = 0
    /\ route = "forecast"
    /\ useMock = FALSE
    /\ call \in {NewCall(r, b) : r \in 0..MaxRetries, b \in Bases}
    /\ mar = NoMar
    /\ qry = NoQry

\* The upstream answers the attempt with status st.
ClientResponds(st, rnd) ==
    /\ call.pc = "fetch"
    /\ call' = ClientOutcome(call, RespOut(st), rnd)
    /\ UNCHANGED <<req, cache, now, ticks, route, useMock, mar, qry>>

\* The attempt fails at network level.
ClientNetFails(rnd) ==
    /\ call.pc = "fetch"
    /\ call' = ClientOutcome(call, ErrOut("TypeError"), rnd)
    /\ UNCHANGED <<req, cache, now, ticks, route, useMock, mar, qry>>

\* The deadline timer fires: controller.abort(). A pending fetch rejects with
\* AbortError; a timer left armed after the fetch settled aborts its signal late.
ClientTimerFires(rnd) ==
    /\ call.timer = "deadline"
    /\ call' = IF call.pc = "fetch"
               THEN ClientOutcome([call EXCEPT !.signal = TRUE], ErrOut("AbortError"), rnd)
               ELSE [call EXCEPT !.signal = TRUE, !.timer = "none"]
    /\ UNCHANGED <<req, cache, now, ticks, route, useMock, mar, qry>>

\* The backoff delay has passed: the next attempt starts.
ClientBackoffElapsed ==
    /\ call.pc = "backoff"
    /\ call' = NextFetch(call)
    /\ UNCHANGED <<req, cache, now, ticks, route, useMock, mar, qry>>

ClientNext ==
    \/ \E st \in ClientStatuses, rnd \in Randoms : ClientResponds(st, rnd)
    \/ \E rnd \in Randoms : ClientNetFails(rnd)
    \/ \E rnd \in Randoms : ClientTimerFires(rnd)
    \/ ClientBackoffElapsed

ClientSpec == ClientInit /\ [][ClientNext]_vars

(***************************************************************************)
(* Properties of the handlers (Spec).                                      *)
(***************************************************************************)
InFlight == {"fetch", "backoff", "body"}

Answered200(r) == req[r].pc = "done" /\ req[r].resp.status = 200

\* Slot r takes a valid request in this step (an invalid one is answered 400).
ArrivesValid(r) ==
    /\ req[r].pc \in {"idle", "done"}
    /\ req'[r] # req[r]
    /\ req'[r].resp.status # 400

\* The entry written when req[r] was answered has not expired yet.
WithinTTL(r) == now <= req[r].resp.at + TTL(route)

\* C1 as stated: once a request has been answered 200 with cached=false, every
\* later request with the same parameters arriving before the TTL expires is
\* answered in the same step with cached=true and the same payload.
C1_Original ==
    [][\A r1, r2 \in Req :
          (/\ r1 # r2
           /\ Answered200(r1) /\ ~req[r1].resp.cached
           /\ WithinTTL(r1)
           /\ ArrivesValid(r2))
          => (/\ req'[r2].pc = "done"
              /\ req'[r2].resp.status = 200
              /\ req'[r2].resp.cached
              /\ req'[r2].resp.val = req[r1].resp.val)]_vars

\* C1 amended: once a request has been answered 200 with cached=false and
\* upstream (not mock) data, every later request with the same parameters
\* arriving before the TTL expires is answered in the same step with cached=true
\* and the payload then cached under the key, whose entry does not expire
\* earlier than the first one's; that payload is the first answer's when no
\* other request has been handled besides (a miss that overlapped the first
\* also answers cached=false and overwrites the entry).
C1_CacheIdempotence ==
    [][\A r1, r2 \in Req :
          (/\ r1 # r2
           /\ Answered200(r1) /\ ~req[r1].resp.cached /\ ~req[r1].resp.mock
           /\ WithinTTL(r1)
           /\ ArrivesValid(r2))
          => LET k == CacheKey(route)
             IN /\ req'[r2].pc = "done"
                /\ req'[r2].resp.status = 200
                /\ req'[r2].resp.cached
                /\ ~req'[r2].resp.mock
                /\ req'[r2].resp.val = cache[k].val
                /\ cache[k].t >= req[r1].resp.at + TTL(route)
                /\ (\A q \in Req \ {r1} : req[q].pc = "idle")
                      => req'[r2].resp.val = req[r1].resp.val
                /\ cache' = cache]_vars

C1_Witness ==
    \E r1, r2 \in Req :
        /\ r1 # r2
        /\ Answered200(r1) /\ ~req[r1].resp.cached /\ ~req[r1].resp.mock
        /\ Answered200(r2) /\ req[r2].resp.cached
        /\ req[r2].resp.val = req[r1].resp.val
        /\ req[r2].resp.at > req[r1].resp.at

\* C2: a request that finds an expired entry under its key (swept or not, the
\* lookup does not return it) is handled as a miss: it is in flight to the
\* upstream or answered with cached=false; cached=true is only ever answered
\* from an entry that had not expired at the lookup.
C2_NoExpiredRead ==
    \A r \in Req :
        /\ (req[r].pc = "done" /\ req[r].resp.cached) => req[r].saw = "live"
        /\ req[r].saw \in {"stale", "absent"} =>
              \/ req[r].pc \in InFlight
              \/ req[r].pc = "done" /\ ~req[r].resp.cached
        /\ req[r].saw = "stale" => ~(route = "forecast" /\ useMock)

C2_Witness ==
    \E r \in Req :
        /\ req[r].saw = "stale"
        /\ Answered200(r) /\ ~req[r].resp.cached
        /\ req[r].resp.val.kind = "full"

\* C3: no cache entry holds mock data; a mock answer is never cached=true and
\* carries the mock flag; two mock answers are different snapshots; with
\* USE_MOCK set every valid forecast request is answered by a new mock.
C3_MockNeverCached ==
    /\ \A k \in DOMAIN cache : cache[k].val.kind # "mock"
    /\ \A r \in Req :
          /\ (req[r].pc = "done" /\ req[r].resp.val.kind = "mock") =>
                ~req[r].resp.cached /\ req[r].resp.mock /\ req[r].resp.status = 200
          /\ (useMock /\ route = "forecast" /\ req[r].pc = "done"
                 /\ req[r].resp.status # 400) =>
                req[r].resp.val.kind = "mock" /\ ~req[r].resp.cached
    /\ \A r1, r2 \in Req :
          (/\ r1 # r2
           /\ req[r1].pc = "done" /\ req[r1].resp.val.kind = "mock"
           /\ req[r2].pc = "done" /\ req[r2].resp.val.kind = "mock")
          => req[r1].resp.val.data # req[r2].resp.val.data

C3_Witness ==
    \E r1, r2 \in Req :
        /\ r1 # r2
        /\ req[r1].pc = "done" /\ req[r1].resp.val.kind = "mock" /\ req[r1].lwOut # "none"
        /\ req[r2].pc = "done" /\ req[r2].resp.val.kind = "mock"
        /\ req[r2].resp.at > req[r1].resp.at

\* The order of the forecast handler's degradation steps, fails being the ways
\* the full-variable request may have ended before the reduced one is issued.
DegradationOrder(fails) ==
    \A r \in Req :
        LET s == req[r]
        IN /\ (s.stage = "lw" \/ s.lwOut # "none"
                  \/ (s.pc = "done" /\ s.ep = "forecast"
                        /\ s.resp.val.kind = "reduced" /\ ~s.resp.cached))
                 => s.geocoded /\ s.metOut \in fails
           /\ s.lwOut # "none" =>
                 s.pc = "done" /\ s.resp.val.kind = "mock" /\ s.metOut # "none"
           /\ (s.pc = "done" /\ s.resp.val.kind = "mock" /\ ~useMock) =>
                 s.geocoded /\ s.lwOut # "none"
           /\ (s.geocoded /\ s.pc = "done") =>
                 /\ s.resp.status = 200
                 /\ ForecastKeys \subseteq s.resp.val.keys
           /\ (s.geocoded /\ s.pc # "done") => s.pc \in InFlight /\ s.stage \in {"met", "lw"}

\* C4 as stated: the reduced request is issued only after the full request
\* failed with retries exhausted or a non-2xx status, the mock only after the
\* reduced request failed too, and a geocoded request is always answered 200
\* with location, lat, lon and forecast.
C4_Original == DegradationOrder({"exhausted", "non2xx"})

\* C4 amended: as stated, the full request's failures being retries exhausted,
\* a non-2xx status, or a 2xx response whose body cannot be read.
C4_DegradationOrder == DegradationOrder({"exhausted", "non2xx", "badbody"})

C4_Witness ==
    \E r \in Req :
        /\ req[r].pc = "done" /\ req[r].geocoded
        /\ req[r].metOut = "badbody" /\ req[r].lwOut # "none"
        /\ req[r].resp.status = 200 /\ req[r].resp.val.kind = "mock"

\* C5 as stated: every answer built from mock or reduced-parameter data is a
\* 200 carrying the mock marker, and a 200 without the marker holds data of the
\* full-variable request.
C5_Original ==
    \A r \in Req :
        req[r].pc = "done" =>
            /\ req[r].resp.val.kind \in {"mock", "reduced"} =>
                  req[r].resp.status = 200 /\ req[r].resp.mock
            /\ (req[r].resp.status = 200 /\ ~req[r].resp.mock) =>
                  req[r].resp.val.kind = "full"

\* C5 amended: a mock answer is a 200 carrying mock=true; an answer built from
\* the reduced-parameter forecast or the marine safe-set retry is a 200 without
\* any marker; a 200 without the marker holds upstream data, full or reduced,
\* never a synthesized mock.
C5_MockMarker ==
    \A r \in Req :
        req[r].pc = "done" =>
            /\ req[r].resp.val.kind = "mock" =>
                  req[r].resp.status = 200 /\ req[r].resp.mock
            /\ req[r].resp.val.kind = "reduced" =>
                  req[r].resp.status = 200 /\ ~req[r].resp.mock
            /\ (req[r].resp.status = 200 /\ ~req[r].resp.mock) =>
                  req[r].resp.val.kind \in {"full", "reduced"}
            /\ req[r].resp.mock => req[r].resp.val.kind = "mock"

C5_Witness ==
    \E r \in Req :
        /\ Answered200(r) /\ ~req[r].resp.cached
        /\ req[r].resp.val.kind = "reduced"
        /\ ~req[r].resp.mock

\* C9: whenever a handler waits (for response headers, for a backoff, for a
\* response body) a timer is armed that ends the wait should the upstream stay
\* silent, so every request is eventually answered.
C9_EveryWaitHasATimer ==
    \A r \in Req : req[r].pc \in InFlight => req[r].timer # "none"

(***************************************************************************)
(* Properties of fetchWithRetries and fetchWithTimeout (ClientSpec).       *)
(***************************************************************************)
\* The attempt ended in a way the claims call a failure: no response (network
\* error, timeout) or a response with status >= 500.
FailedAttempt(o) == o.type = "err" \/ (o.type = "resp" /\ o.status >= 500)

\* C6: against an upstream that fails every attempt the call makes exactly
\* retries + 1 fetches, never more, and then throws the error of the last
\* attempt (the rejection itself, or the Error made from the last 5xx status).
C6_RetryBound ==
    LET n == Len(call.outs)
        last == call.outs[n]
    IN /\ call.calls <= call.retries + 1
       /\ ((\A i \in 1..n : FailedAttempt(call.outs[i])) /\ call.pc # "fetch") =>
             IF n = call.retries + 1
             THEN /\ call.pc = "thrown"
                  /\ call.calls = call.retries + 1
                  /\ call.thrown.name = (IF last.type = "err" THEN last.name ELSE "Error")
                  /\ call.thrown.status = last.status
             ELSE call.pc = "backoff" /\ n < call.retries + 1
       /\ call.pc = "thrown" =>
             /\ n = call.retries + 1
             /\ \A i \in 1..n : FailedAttempt(call.outs[i])

C6_Witness ==
    /\ call.pc = "thrown"
    /\ call.retries = 2
    /\ call.calls = 3
    /\ call.outs[1] = RespOut(503)
    /\ call.outs[3] = RespOut(500)
    /\ call.thrown.status = 500

\* C7: an attempt answered with a status below 500 is the call's last: that
\* response is returned, no fetch and no backoff wait follows it; a backoff wait
\* only ever follows a failed attempt.
C7_NoRetryBelow500 ==
    LET n == Len(call.outs)
    IN /\ \A i \in 1..n :
             (call.outs[i].type = "resp" /\ call.outs[i].status < 500) =>
                 /\ i = n
                 /\ call.pc = "returned"
                 /\ call.ret = call.outs[i]
                 /\ call.calls = i
                 /\ Len(call.waits) = i - 1
       /\ \A i \in 1..Len(call.waits) : FailedAttempt(call.outs[i])
       /\ call.pc = "returned" => n > 0 /\ call.ret = call.outs[n] /\ call.ret.status < 500

C7_Witness ==
    /\ call.pc = "returned"
    /\ call.retries >= 1
    /\ call.calls = 1
    /\ call.ret = RespOut(404)
    /\ call.waits = << >>

\* waits[i] is slept before attempt i + 1.
RECURSIVE SumTo(_, _)
SumTo(seq, i) == IF i = 0 THEN 0 ELSE seq[i] + SumTo(seq, i - 1)

\* C8 as stated: the wait before attempt n >= 2 lies between 0.75 and 1.25 times
\* backoffBase * 2^(n-1).
C8_Original ==
    \A i \in 1..Len(call.waits) :
        LET n == i + 1
            x == call.backoffBase * Pow2(n - 1)
        IN 4 * call.waits[i] >= 3 * x /\ 4 * call.waits[i] <= 5 * x

\* C8 amended: the wait before attempt n >= 2 is backoffBase * 2^(n-2) * jitter
\* rounded to the nearest millisecond, jitter in [0.75, 1.25): it lies within
\* half a millisecond of 0.75 to 1.25 times backoffBase * 2^(n-2) (exactly in
\* that range for the default base of 300 ms); a fully exhausted call has slept
\* once before each of its attempts 2 .. retries + 1, and its total wait, the
\* sum of these terms, lies within the terms' summed bounds.
C8_Backoff ==
    LET m == Len(call.waits)
    IN /\ \A i \in 1..m :
             LET n == i + 1
                 x == call.backoffBase * Pow2(n - 2)
             IN /\ 4 * call.waits[i] >= 3 * x - 2
                /\ 4 * call.waits[i] <= 5 * x + 2
                /\ call.backoffBase = DefaultBackoffBase =>
                      4 * call.waits[i] >= 3 * x /\ 4 * call.waits[i] <= 5 * x
       /\ m = call.calls - (IF call.pc = "backoff" THEN 0 ELSE 1)
       /\ call.pc = "thrown" =>
             /\ m = call.retries
             /\ 4 * SumTo(call.waits, m) >= 3 * call.backoffBase * (Pow2(m) - 1) - 2 * m
             /\ 4 * SumTo(call.waits, m) <= 5 * call.backoffBase * (Pow2(m) - 1) + 2 * m

C8_Witness ==
    /\ call.pc = "thrown"
    /\ call.retries = 2
    /\ call.backoffBase = DefaultBackoffBase
    /\ call.waits = <<225, 747>>

\* C10: every fetchWithTimeout call has exactly one outcome; its deadline timer
\* is armed only while its fetch is pending (once the fetch has resolved or
\* failed the timer is cleared and cannot abort); the signal is aborted exactly
\* when the timer fired first, and then the outcome is the AbortError.
C10_SingleOutcome ==
    LET n == Len(call.outs)
    IN /\ n = call.calls - (IF call.pc = "fetch" THEN 1 ELSE 0)
       /\ call.timer = "deadline" <=> call.pc = "fetch"
       /\ call.signal <=> (call.pc # "fetch" /\ n > 0 /\ call.outs[n] = ErrOut("AbortError"))

C10_Witness ==
    /\ call.pc = "returned"
    /\ Len(call.outs) = 2
    /\ call.outs[1] = ErrOut("AbortError")
    /\ call.outs[2] = RespOut(200)
    /\ call.timer = "none"
    /\ ~call.signal

(***************************************************************************)
(* Further properties of the handlers (Spec).                              *)
(***************************************************************************)
\* Slot r, waiting for a fetch, after that fetch has ended with outcome o.
After(r, o) == OnOutcome(req[r], o, cache, FreshData, now).slot

\* Slot r, reading a response body, after resp.json() has rejected.
AfterBadBody(r) ==
    OnThrow(req[r], [name |-> "SyntaxError", status |-> 0], "badbody",
            cache, FreshData, now).slot

\* The upstream call has ended (fetchWithRetries does not go on to a backoff).
CallEnded(s) == s.pc # "backoff"

\* C11 as stated: in every handler a call that ends by exceeding its deadline
\* has the request answered 504, and a call that ends by a network failure or
\* an unreadable body has it answered 500.
C11_Original ==
    \A r \in Req :
        /\ req[r].pc = "fetch" =>
              LET t == After(r, ErrOut("AbortError"))
                  f == After(r, ErrOut("TypeError"))
              IN /\ CallEnded(t) => t.pc = "done" /\ t.resp.status = 504
                 /\ CallEnded(f) => f.pc = "done" /\ f.resp.status = 500
        /\ req[r].pc = "body" =>
              AfterBadBody(r).pc = "done" /\ AfterBadBody(r).resp.status = 500

\* The upstream calls whose failure the handler does not absorb: all but the
\* full and the reduced Open-Meteo request of forecast.
Unabsorbed(stage) == stage \notin {"met", "lw"}

\* C11 amended: as stated for the geocoding call of forecast and the calls of
\* air-quality, climate and marine; a timeout or other failure of forecast's
\* full Open-Meteo request leads to the reduced request, and one of the
\* reduced request to the mock forecast, answered 200: never 504 or 500.
C11_TimeoutStatus ==
    \A r \in Req :
        /\ (req[r].pc = "fetch" /\ Unabsorbed(req[r].stage)) =>
              LET t == After(r, ErrOut("AbortError"))
                  f == After(r, ErrOut("TypeError"))
              IN /\ CallEnded(t) => t.pc = "done" /\ t.resp.status = 504
                 /\ CallEnded(f) => f.pc = "done" /\ f.resp.status = 500
        /\ (req[r].pc = "body" /\ Unabsorbed(req[r].stage)) =>
              AfterBadBody(r).pc = "done" /\ AfterBadBody(r).resp.status = 500
        /\ (req[r].pc \in {"fetch", "body"} /\ ~Unabsorbed(req[r].stage)) =>
              \A s \in (IF req[r].pc = "body" THEN {AfterBadBody(r)}
                         ELSE {After(r, ErrOut("AbortError")), After(r, ErrOut("TypeError"))}) :
                  CallEnded(s) =>
                      IF req[r].stage = "met"
                      THEN s.pc = "fetch" /\ s.stage = "lw"
                      ELSE s.pc = "done" /\ s.resp.status = 200 /\ s.resp.mock
        /\ (req[r].pc = "done" /\ req[r].resp.status \in {500, 504}) => ~req[r].geocoded

C11_Witness ==
    \E r1, r2 \in Req :
        /\ req[r1].pc = "done" /\ req[r1].resp.status = 504
        /\ req[r2].pc = "done" /\ req[r2].resp.status = 500

\* C12: in the marine handler a non-2xx answer to the full request is followed
\* by exactly one request with the safe set; a non-2xx answer to that one is
\* answered 500; a 2xx first answer leads to the body and to the answer with no
\* second request; no request follows the second, neither call is retried.
C12_MarineSafeRetry ==
    \A r \in Req :
        req[r].ep = "marine" =>
            /\ req[r].stage \in {"none", "mar", "marSafe"}
            /\ req[r].pc # "backoff" /\ req[r].attempt = 0
            /\ (req[r].stage = "mar" /\ req[r].pc = "fetch") =>
                  \A st \in Statuses :
                      LET s == After(r, RespOut(st))
                      IN IF st >= 200 /\ st <= 299
                         THEN s.pc = "body" /\ s.stage = "mar"
                         ELSE s.pc = "fetch" /\ s.stage = "marSafe" /\ s.timer = "deadline"
            /\ (req[r].stage = "marSafe" /\ req[r].pc = "fetch") =>
                  /\ \A st \in Statuses :
                        LET s == After(r, RespOut(st))
                        IN IF st >= 200 /\ st <= 299
                           THEN s.pc = "body" /\ s.stage = "marSafe"
                           ELSE s.pc = "done" /\ s.resp.status = 500
                  /\ \A n \in {"AbortError", "TypeError"} : After(r, ErrOut(n)).pc = "done"
            /\ req[r].pc = "body" =>
                  /\ OnBody(req[r], "data", cache, FreshData, now).slot.pc = "done"
                  /\ AfterBadBody(r).pc = "done"

C12_Witness ==
    \E r \in Req :
        /\ req[r].ep = "marine"
        /\ req[r].pc = "done"
        /\ req[r].resp.status = 200
        /\ req[r].resp.val.kind = "reduced"
        /\ ~req[r].resp.cached

\* Slot r is answered in this step.
Answers(r) == req'[r].pc = "done" /\ req'[r] # req[r]

\* The entry cache.set leaves for payload v written at the current time.
Written(v) == [val |-> v, t |-> now + TTL(route)]

\* C13: a request answered 200 from the miss path with upstream data has, in
\* the same step, its payload written under its key with the endpoint's TTL; a
\* request answered 400, 404, 500, 502 or 504, or with a mock or cached
\* payload, leaves the cache as it is; the cache gets a new entry in no other way.
C13_WriteOn200 ==
    [][LET k == CacheKey(route)
       IN /\ \A r \in Req :
                Answers(r) =>
                    LET a == req'[r].resp
                    IN /\ (a.status = 200 /\ ~a.cached /\ ~a.mock) => cache'[k] = Written(a.val)
                       /\ a.status \in {400, 404, 500, 502, 504} => cache' = cache
                       /\ (a.status = 200 /\ (a.cached \/ a.mock)) => cache' = cache
          /\ \A j \in DOMAIN cache :
                (cache'[j] # cache[j] /\ cache'[j] # Absent) =>
                    /\ j = k
                    /\ \E r \in Req :
                          /\ Answers(r)
                          /\ req'[r].resp.status = 200
                          /\ ~req'[r].resp.cached /\ ~req'[r].resp.mock
                          /\ cache'[j].val = req'[r].resp.val]_vars

C13_Witness ==
    \E r1, r2 \in Req :
        /\ req[r1].pc = "done" /\ req[r1].resp.status = 200
        /\ ~req[r1].resp.cached /\ ~req[r1].resp.mock
        /\ cache[CacheKey(route)] =
               [val |-> req[r1].resp.val, t |-> req[r1].resp.at + TTL(route)]
        /\ req[r2].pc = "done" /\ req[r2].resp.status \in {404, 500, 502, 504}

\* C14: a request that misses starts its own upstream call even while another
\* request for the key is in flight; a request in flight that gets its data
\* after another has written the entry is still answered cached=false and
\* replaces the whole entry, value and expiry; the entry only ever changes to
\* the payload of the request writing at that moment, so after all requests
\* have finished it is the last write's.
C14_NoDeduplication ==
    [][LET k == CacheKey(route)
       IN /\ \A r, q \in Req :
                (/\ q # r /\ req[q].pc \in InFlight
                 /\ ArrivesValid(r)
                 /\ ~(cache[k] # Absent /\ cache[k].t >= now)
                 /\ ~(route = "forecast" /\ useMock))
                => req'[r].pc = "fetch" /\ req'[r].stage = FirstStage(route)
                   /\ req'[q] = req[q]
          /\ \A r \in Req :
                (/\ req[r].pc \in InFlight /\ Answers(r)
                 /\ req'[r].resp.status = 200 /\ ~req'[r].resp.mock
                 /\ cache[k] # Absent)
                => /\ ~req'[r].resp.cached
                   /\ cache'[k] = Written(req'[r].resp.val)
                   /\ cache'[k].val # cache[k].val
          /\ (cache'[k] # cache[k] /\ cache'[k] # Absent) =>
                \E r \in Req : req[r].pc \in InFlight /\ Answers(r)
                                /\ cache'[k] = Written(req'[r].resp.val)]_vars

C14_Witness ==
    \E r1, r2 \in Req :
        /\ r1 # r2
        /\ req[r1].pc = "done" /\ req[r1].resp.status = 200
        /\ ~req[r1].resp.cached /\ ~req[r1].resp.mock /\ req[r1].saw = "absent"
        /\ req[r2].pc = "done" /\ req[r2].resp.status = 200
        /\ ~req[r2].resp.cached /\ ~req[r2].resp.mock /\ req[r2].saw = "absent"
        /\ req[r1].resp.at < req[r2].resp.at
        /\ cache[CacheKey(route)] =
               [val |-> req[r2].resp.val, t |-> req[r2].resp.at + TTL(route)]
        /\ req[r1].resp.val # req[r2].resp.val

(***************************************************************************)
(* ResampleSpec: one /api/marine request that missed the cache and has     *)
(* read its upstream body; answering it runs the resampler.  A second      *)
(* request with the same parameters may then be served from the cache.     *)
(***************************************************************************)
\* Rows of the hourly table: every variable 10, every variable absent, and a
\* row with some variables 20 and the others absent.
Profiles ==
    {[wave_height |-> Num(10), windspeed_10m |-> Num(10), shortwave_radiation |-> Num(10),
      significant_wave_period |-> Num(10), swell_height |-> Num(10)],
     [wave_height |-> Null, windspeed_10m |-> Null, shortwave_radiation |-> Null,
      significant_wave_period |-> Null, swell_height |-> Null],
     [wave_height |-> Num(20), windspeed_10m |-> Null, shortwave_radiation |-> Num(20),
      significant_wave_period |-> Num(20), swell_height |-> Null]}

\* The time of row i: one hour apart, or with every second row 15 minutes early.
RowTime(i, irregular) == 60 * (i - 1) - (IF irregular /\ i % 2 = 0 THEN 15 ELSE 0)

HourlyRow(i, prof, irregular) ==
    [time |-> ToISO(RowTime(i, irregular)),
     wave_height |-> prof.wave_height,
     windspeed_10m |-> prof.windspeed_10m,
     shortwave_radiation |-> prof.shortwave_radiation,
     significant_wave_period |-> prof.significant_wave_period,
     swell_height |-> prof.swell_height]

\* json.hourly: up to MaxPoints rows in time order.
Hourlies ==
    UNION {{[i \in 1..n |-> HourlyRow(i, f[i], irregular)] :
               f \in [1..n -> Profiles], irregular \in BOOLEAN} : n \in 0..MaxPoints}

MinutelyRow(t, v) == [time |-> ToISO(t), sw |-> v]

\* json.minutely: missing or empty; without samples; samples every few minutes
\* (one without a radiation value); samples that leave a quarter hour empty.
Minutelies ==
    {[has |-> FALSE, samples |-> <<>>],
     [has |-> TRUE, samples |-> <<>>],
     [has |-> TRUE,
      samples |-> <<MinutelyRow(46, Num(4)), MinutelyRow(50, Num(8)), MinutelyRow(55, Null),
                    MinutelyRow(61, Num(6)), MinutelyRow(74, Num(3)), MinutelyRow(76, Num(9))>>],
     [has |-> TRUE, samples |-> <<MinutelyRow(50, Num(4)), MinutelyRow(80, Num(8))>>]}

\* lat, lon: North America, Central Europe, outside both boxes.
Coords == {[lat |-> 40, lon |-> -100], [lat |-> 50, lon |-> 10], [lat |-> 0, lon |-> 0]}

\* Date.now() at the request: before, inside and after the hourly rows' range.
Clocks == {15, 52, 125}

NewMar(c, p, f, clock, hourly, minutely) ==
    [NoMar EXCEPT !.pc = "body", !.lat = c.lat, !.lon = c.lon, !.pastSteps = p,
                  !.forecastSteps = f, !.clock = clock,
                  !.json = [minutely |-> minutely, hourly |-> hourly]]

ResampleInit ==
    /\ req = [r \in Req |-> IdleSlot]
    /\ cache = [k \in {CacheKey(e) : e \in Endpoints} |-> Absent]
    /\ now = 0
    /\ ticks = 0
    /\ route = "marine"
    /\ useMock = FALSE
    /\ call = NoCall
    /\ qry = NoQry
    /\ mar \in {NewMar(c, p, f, clock, hourly, minutely) :
                    c \in Coords, p \in 0..MaxSteps, f \in 0..MaxSteps, clock \in Clocks,
                    hourly \in Hourlies, minutely \in Minutelies}

\* The handler builds series15 and answers.
MarineAnswers ==
    /\ mar.pc = "body"
    /\ mar' = [mar EXCEPT
                  !.pc = "answered",
                  !.series15 = Series15(mar.json, mar.lat, mar.lon, mar.pastSteps,
                                        mar.forecastSteps, mar.clock),
                  !.path = PathTaken(mar.json, mar.lat, mar.lon, mar.pastSteps,
                                     mar.forecastSteps)]
    /\ UNCHANGED <<req, cache, now, ticks, route, useMock, call, qry>>

\* Minutes after the write at which the entry is read again: the entry lives
\* MarineTTL seconds.
HitDelays == {1, MarineTTL \div 60}

\* A later request with the same lat, lon and steps finds the payload in the
\* cache and is answered with it (cached: true): no fetch, no resampling.
MarineHit(d) ==
    /\ mar.pc = "answered"
    /\ mar' = [mar EXCEPT !.pc = "served", !.hit = mar.clock + d]
    /\ UNCHANGED <<req, cache, now, ticks, route, useMock, call, qry>>

ResampleNext ==
    \/ MarineAnswers
    \/ \E d \in HitDelays : MarineHit(d)

ResampleSpec == ResampleInit /\ [][ResampleNext]_vars

(***************************************************************************)
(* Properties of the resampler (ResampleSpec).                             *)
(***************************************************************************)
SeriesVars ==
    {"wave_height", "windspeed_10m", "shortwave_radiation", "significant_wave_period",
     "swell_height"}

\* The variables interp returns a value for.
InterpVars == {"wave_height", "windspeed_10m", "shortwave_radiation"}

Answered == mar.pc = "answered"

\* The j-th timestamp of the answer's series, and the i-th hourly row's.
SeriesTs(j) == GetTime(mar.series15.time[j])
RowTs(i) == GetTime(mar.json.hourly[i].time)
NRows == Len(mar.json.hourly)

\* C15: a request with pastSteps = 0 and forecastSteps = 0 runs no resampling
\* and is answered with series15 absent (null), whatever the upstream body and
\* the coordinates.
C15_ZeroWindowSkip ==
    (Answered /\ mar.pastSteps = 0 /\ mar.forecastSteps = 0) =>
        mar.series15.null /\ mar.path = "none"

\* C16: in every answer with a series, each of the five variable arrays is as
\* long as the time array.
C16_SameLength ==
    (Answered /\ ~mar.series15.null) =>
        \A v \in SeriesVars : Len(mar.series15[v]) = Len(mar.series15.time)

\* C17 as stated: on both paths every timestamp of the series is exactly 15
\* minutes after the previous one.
C17_Original ==
    (Answered /\ ~mar.series15.null) =>
        \A j \in 2..Len(mar.series15.time) : SeriesTs(j) = SeriesTs(j - 1) + 15

\* C17 amended: the time array is strictly increasing on both paths; on the
\* interpolation path every timestamp is exactly 15 minutes after the previous
\* one; on the bucket path the timestamps are starts of 15-minute buckets, so a
\* positive multiple of 15 minutes apart (buckets without samples are left out).
C17_Stride ==
    (Answered /\ ~mar.series15.null) =>
        /\ mar.path \in {"A", "B"}
        /\ \A j \in 2..Len(mar.series15.time) :
              /\ SeriesTs(j) > SeriesTs(j - 1)
              /\ (SeriesTs(j) - SeriesTs(j - 1)) % 15 = 0
              /\ mar.path = "B" => SeriesTs(j) = SeriesTs(j - 1) + 15
        /\ mar.path = "A" => \A j \in 1..Len(mar.series15.time) : SeriesTs(j) % 15 = 0

C17_Witness ==
    /\ Answered /\ mar.path = "A"
    /\ Len(mar.series15.time) = 2
    /\ SeriesTs(2) = SeriesTs(1) + 30

\* C18: on the interpolation path, for a grid timestamp ts strictly inside the
\* rows' range and successive rows a, b with a.ts <= ts <= b.ts that both have a
\* value of a variable interp returns, the output is
\* a + (b - a) * (ts - a.ts) / (b.ts - a.ts), and lies between a and b.
C18_LinearBlend ==
    (Answered /\ mar.path = "B") =>
        \A j \in 1..Len(mar.series15.time), i \in 1..(NRows - 1), v \in InterpVars :
            LET ts == SeriesTs(j)
                av == mar.json.hourly[i][v]
                bv == mar.json.hourly[i + 1][v]
                dd == RowTs(i + 1) - RowTs(i)
                out == mar.series15[v][j]
            IN (/\ RowTs(1) < ts /\ ts < RowTs(NRows)
                /\ RowTs(i) <= ts /\ ts <= RowTs(i + 1)
                /\ av.present /\ bv.present)
               => /\ out.present
                  /\ out.num * dd = out.den * (av.num * dd + (bv.num - av.num) * (ts - RowTs(i)))
                  /\ \/ av.num * out.den <= out.num /\ out.num <= bv.num * out.den
                     \/ bv.num * out.den <= out.num /\ out.num <= av.num * out.den

\* a = 10 at t = 0 and b = 20 at t = 60 min give 12.5 at t = 15 min.
C18_Witness ==
    /\ Answered /\ mar.path = "B" /\ NRows >= 2
    /\ RowTs(1) = 0 /\ mar.json.hourly[1].wave_height = Num(10)
    /\ RowTs(2) = 60 /\ mar.json.hourly[2].wave_height = Num(20)
    /\ \E j \in 1..Len(mar.series15.time) :
          /\ SeriesTs(j) = 15
          /\ mar.series15.wave_height[j] = [present |-> TRUE, num |-> 25, den |-> 2]

\* C19: on the interpolation path, for a grid timestamp strictly between two
\* successive rows and a variable interp returns: if exactly one of the two
\* rows has a value the output is that value, if neither has one the output is
\* absent; no output is a zero made from an absent value.
C19_MixedAbsence ==
    (Answered /\ mar.path = "B") =>
        \A j \in 1..Len(mar.series15.time), i \in 1..(NRows - 1), v \in InterpVars :
            LET ts == SeriesTs(j)
                av == mar.json.hourly[i][v]
                bv == mar.json.hourly[i + 1][v]
                out == mar.series15[v][j]
            IN (RowTs(i) < ts /\ ts < RowTs(i + 1)) =>
                  /\ (av.present /\ ~bv.present) => out = av
                  /\ (~av.present /\ bv.present) => out = bv
                  /\ (~av.present /\ ~bv.present) => ~out.present
                  /\ out.present => out.num # 0

C19_Witness ==
    /\ Answered /\ mar.path = "B"
    /\ \E j \in 1..Len(mar.series15.time), i \in 1..(NRows - 1) :
          /\ RowTs(i) < SeriesTs(j) /\ SeriesTs(j) < RowTs(i + 1)
          /\ mar.json.hourly[i].windspeed_10m = Num(10)
          /\ mar.json.hourly[i + 1].windspeed_10m = Null
          /\ mar.series15.windspeed_10m[j] = Num(10)

\* C20: on the interpolation path, at a grid timestamp at or before the first
\* row the output of interp is the first row's value, at or after the last row
\* the last row's; with no rows every output value is absent.
C20_BoundaryClamp ==
    (Answered /\ mar.path = "B") =>
        \A j \in 1..Len(mar.series15.time) :
            IF NRows = 0
            THEN \A v \in SeriesVars : ~mar.series15[v][j].present
            ELSE \A v \in InterpVars :
                    /\ SeriesTs(j) <= RowTs(1) =>
                          mar.series15[v][j] = mar.json.hourly[1][v]
                    /\ SeriesTs(j) >= RowTs(NRows) =>
                          mar.series15[v][j] = mar.json.hourly[NRows][v]

C20_Witness ==
    /\ Answered /\ mar.path = "B" /\ NRows >= 2
    /\ \E j \in 1..Len(mar.series15.time) :
          /\ SeriesTs(j) > RowTs(NRows)
          /\ mar.series15.wave_height[j] = mar.json.hourly[NRows].wave_height
          /\ mar.series15.wave_height[j].present
          /\ mar.series15.wave_height[j] # mar.json.hourly[1].wave_height

\* The i-th native minutely sample of the upstream body, and the request's
\* window [startTs, endTs].
NSamples == Len(mar.json.minutely.samples)
Sample(i) == mar.json.minutely.samples[i]
SampleTs(i) == GetTime(Sample(i).time)
WindowStart == mar.clock - 15 * mar.pastSteps
WindowEnd == mar.clock + 15 * mar.forecastSteps
InWindow(i) == WindowStart <= SampleTs(i) /\ SampleTs(i) <= WindowEnd

\* The quarter hour t lies in.
BucketStart(t) == t - (t % 15)

\* The samples of bucket k that carry a radiation value, and the sum of the
\* values of those among the first i samples.
Valued(k) ==
    {i \in 1..NSamples : InWindow(i) /\ BucketStart(SampleTs(i)) = k /\ Sample(i).sw.present}

RECURSIVE ValueSum(_, _)
ValueSum(k, i) ==
    IF i = 0 THEN 0
    ELSE ValueSum(k, i - 1) + (IF i \in Valued(k) THEN Sample(i).sw.num ELSE 0)

\* The samples of bucket k, with or without a radiation value.
Members(k) == {i \in 1..NSamples : InWindow(i) /\ BucketStart(SampleTs(i)) = k}

\* C21 as stated: on the bucket path only the samples with startTs <= t <= endTs
\* are used, each in the bucket floor(t / 15 min) * 15 min; the series has one
\* point per bucket that received a sample, in ascending order, and the point's
\* value is the arithmetic mean of the values of the bucket's samples.
C21_Original ==
    (Answered /\ mar.path = "A") =>
        /\ \A j \in 2..Len(mar.series15.time) : SeriesTs(j) > SeriesTs(j - 1)
        /\ {SeriesTs(j) : j \in 1..Len(mar.series15.time)} =
               {BucketStart(SampleTs(i)) : i \in {x \in 1..NSamples : InWindow(x)}}
        /\ Len(mar.series15.shortwave_radiation) = Len(mar.series15.time)
        /\ \A j \in 1..Len(mar.series15.time) :
              LET out == mar.series15.shortwave_radiation[j]
                  members == Valued(SeriesTs(j))
              IN members # {} =>
                    /\ out.present
                    /\ out.num * Cardinality(members) =
                           out.den * ValueSum(SeriesTs(j), NSamples)

\* C21 amended: as stated, except that the value of a point is the sum of the
\* radiation values of the bucket's samples divided by the number of the
\* bucket's samples: a sample without a radiation value counts as 0 and is
\* counted in the divisor.
C21_BucketMean ==
    (Answered /\ mar.path = "A") =>
        /\ \A j \in 2..Len(mar.series15.time) : SeriesTs(j) > SeriesTs(j - 1)
        /\ {SeriesTs(j) : j \in 1..Len(mar.series15.time)} =
               {BucketStart(SampleTs(i)) : i \in {x \in 1..NSamples : InWindow(x)}}
        /\ Len(mar.series15.shortwave_radiation) = Len(mar.series15.time)
        /\ \A j \in 1..Len(mar.series15.time) :
              LET out == mar.series15.shortwave_radiation[j]
              IN /\ out.present
                 /\ out.num * Cardinality(Members(SeriesTs(j))) =
                        out.den * ValueSum(SeriesTs(j), NSamples)

\* The quarter hour from minute 45 holds the samples 4, 8 and one without a
\* value; the sample at minute 61 is in the window, those from 74 on are not.
\* The series is 4 (12 / 3) at 45 and 6 at 60.
C21_Witness ==
    /\ Answered /\ mar.path = "A"
    /\ NSamples = 6 /\ WindowStart = 37 /\ WindowEnd = 67
    /\ Len(mar.series15.time) = 2
    /\ SeriesTs(1) = 45 /\ mar.series15.shortwave_radiation[1] = Num(4)
    /\ SeriesTs(2) = 60 /\ mar.series15.shortwave_radiation[2] = Num(6)

\* Native minutely data in the upstream body; coordinates inside the North
\* America or the Europe box.
HasNative == mar.json.minutely.has
InBox ==
    \/ 15 <= mar.lat /\ mar.lat <= 75 /\ -170 <= mar.lon /\ mar.lon <= -50
    \/ 35 <= mar.lat /\ mar.lat <= 70 /\ -10 <= mar.lon /\ mar.lon <= 40

\* What the answer's series shows of the path that built it: the bucket path
\* fills time and shortwave_radiation only, the interpolation path fills
\* wave_height with one value per grid point (at least one).
BuiltByA == ~mar.series15.null /\ Len(mar.series15.wave_height) = 0
BuiltByB == ~mar.series15.null /\ Len(mar.series15.wave_height) > 0

\* C27: in a marine miss-path request the bucket path runs exactly when the
\* upstream body has native minutely data and the coordinates are inside a
\* supported box; the interpolation path runs exactly when the bucket path did
\* not run and pastSteps + forecastSteps > 0; never both; a series the bucket
\* path left empty is not filled by interpolation.
C27_PathSelection ==
    Answered =>
        /\ mar.path = "A" <=> (HasNative /\ InBox)
        /\ mar.path = "B" <=> (~(HasNative /\ InBox) /\ mar.pastSteps + mar.forecastSteps > 0)
        /\ mar.path = "A" <=> BuiltByA
        /\ mar.path = "B" <=> BuiltByB
        /\ ~(BuiltByA /\ BuiltByB)
        /\ (mar.path = "A" /\ Len(mar.series15.time) = 0) =>
              \A v \in SeriesVars : Len(mar.series15[v]) = 0

\* The bucket path ran, found no sample in the window and left the series
\* empty although a window was asked for.
C27_Witness ==
    /\ Answered /\ mar.path = "A"
    /\ mar.pastSteps + mar.forecastSteps > 0
    /\ NRows > 0
    /\ Len(mar.series15.time) = 0

\* C28: on the interpolation path each of the five variables is interpolated
\* from its own hourly values: where the rows bracketing a grid timestamp (the
\* first row at or before the range, the last row at or after it) have a value
\* of a variable, the output of that variable at that timestamp is present.
C28_AllVariablesInterpolated ==
    (Answered /\ mar.path = "B" /\ NRows > 0) =>
        \A j \in 1..Len(mar.series15.time), v \in SeriesVars :
            LET ts == SeriesTs(j)
                out == mar.series15[v][j]
            IN /\ (ts <= RowTs(1) /\ mar.json.hourly[1][v].present) => out.present
               /\ (ts >= RowTs(NRows) /\ mar.json.hourly[NRows][v].present) => out.present
               /\ \A i \in 1..(NRows - 1) :
                     (/\ RowTs(i) <= ts /\ ts <= RowTs(i + 1)
                      /\ mar.json.hourly[i][v].present
                      /\ mar.json.hourly[i + 1][v].present) => out.present

\* A response with a series: the miss-path answer, or a later answer from the
\* cache; Date.now() of the request it answers.
HasSeries == mar.pc \in {"answered", "served"} /\ ~mar.series15.null
RequestNow == IF mar.pc = "served" THEN mar.hit ELSE mar.clock

\* C29 as stated: every timestamp of a response's series, cached responses
\* included, lies within [now - pastSteps * 15 min, now + forecastSteps * 15 min]
\* for the request's own now, and on the interpolation path the series has
\* pastSteps + forecastSteps + 1 points starting at now - pastSteps * 15 min.
C29_Original ==
    HasSeries =>
        /\ \A j \in 1..Len(mar.series15.time) :
              /\ RequestNow - 15 * mar.pastSteps <= SeriesTs(j)
              /\ SeriesTs(j) <= RequestNow + 15 * mar.forecastSteps
        /\ mar.path = "B" =>
              /\ Len(mar.series15.time) = mar.pastSteps + mar.forecastSteps + 1
              /\ SeriesTs(1) = RequestNow - 15 * mar.pastSteps

\* C29 amended: the window is anchored at the now of the miss-path request that
\* built the series, which for a response from the cache is up to 5 minutes
\* before its own now.  On the interpolation path the series has
\* pastSteps + forecastSteps + 1 points, 15 minutes apart, from
\* anchor - pastSteps * 15 min to anchor + forecastSteps * 15 min; on the bucket
\* path every timestamp is the start of a quarter hour that holds a sample of
\* the window, so later than anchor - pastSteps * 15 min - 15 min and not later
\* than anchor + forecastSteps * 15 min.
C29_WindowAnchor ==
    HasSeries =>
        /\ mar.clock <= RequestNow /\ RequestNow <= mar.clock + 5
        /\ \A j \in 1..Len(mar.series15.time) :
              /\ WindowStart - 15 < SeriesTs(j)
              /\ SeriesTs(j) <= WindowEnd
              /\ mar.path = "A" => \E i \in 1..NSamples :
                                      /\ InWindow(i)
                                      /\ SeriesTs(j) <= SampleTs(i)
                                      /\ SampleTs(i) < SeriesTs(j) + 15
        /\ mar.path = "B" =>
              /\ Len(mar.series15.time) = mar.pastSteps + mar.forecastSteps + 1
              /\ \A j \in 1..Len(mar.series15.time) :
                    SeriesTs(j) = WindowStart + 15 * (j - 1)

\* A response from the cache, five minutes after the request that built its
\* three-point series.
C29_Witness ==
    /\ mar.pc = "served" /\ mar.path = "B"
    /\ mar.hit = mar.clock + 5
    /\ mar.pastSteps = 1 /\ mar.forecastSteps = 1
    /\ Len(mar.series15.time) = 3
    /\ SeriesTs(1) = mar.clock - 15
    /\ SeriesTs(1) < mar.hit - 15

(***************************************************************************)
(* Properties of the cache under the handlers (Spec), continued.           *)
(***************************************************************************)
\* Seconds an entry of endpoint e is to live.
Lifetime(e) ==
    CASE e = "forecast" -> 600
      [] e = "aq" -> 300
      [] e = "climate" -> 86400
      [] e = "marine" -> 300

\* C25: every cache entry is written with the TTL of its endpoint, forecast 10
\* minutes, air-quality 5 minutes, climate 24 hours, marine 5 minutes: whenever
\* a step puts an entry into the cache, the entry is under the key of the
\* endpoint of the request answered in that step and expires that endpoint's
\* TTL after the write.
C25_EndpointTTL ==
    [][\A k \in DOMAIN cache :
          (cache'[k] # cache[k] /\ cache'[k] # Absent) =>
              \E r \in Req :
                  /\ Answers(r)
                  /\ k = CacheKey(req'[r].ep)
                  /\ cache'[k].val = req'[r].resp.val
                  /\ cache'[k].t = now + Lifetime(req'[r].ep)]_vars

\* A climate entry written after the clock had advanced, expiring 24 hours
\* after its write.
C25_Witness ==
    \E r \in Req :
        /\ Answered200(r) /\ req[r].ep = "climate" /\ ~req[r].resp.cached
        /\ req[r].resp.at > 0
        /\ cache["climate"] = [val |-> req[r].resp.val, t |-> req[r].resp.at + 86400]

\* C26: a request answered from the cache (cached = true) is answered in the
\* step it arrives in, with the entry's payload, without starting an upstream
\* call and without writing the cache: every entry and its expiry time are
\* the same after the step as before.
C26_HitLeavesCache ==
    [][\A r \in Req :
          (ArrivesValid(r) /\ req'[r].resp.cached) =>
              /\ cache' = cache
              /\ req'[r].pc = "done"
              /\ req'[r].stage = "none" /\ req'[r].timer = "none"
              /\ req'[r].resp.status = 200
              /\ req'[r].resp.val = cache[CacheKey(route)].val
              /\ cache[CacheKey(route)].t >= now]_vars

\* A hit some time after the write: the entry still has the expiry time it was
\* written with.
C26_Witness ==
    \E r1, r2 \in Req :
        /\ Answered200(r1) /\ ~req[r1].resp.cached /\ ~req[r1].resp.mock
        /\ Answered200(r2) /\ req[r2].resp.cached
        /\ req[r2].resp.at > req[r1].resp.at
        /\ cache[CacheKey(route)] =
               [val |-> req[r2].resp.val, t |-> req[r1].resp.at + TTL(route)]

\* C30: a cache write never replaces an entry by a payload whose upstream data
\* was fetched earlier than the entry's: when invocation a overwrites the entry
\* that invocation b wrote, b's data response did not arrive after a's.
C30_NewestFetchWins ==
    [][\A a, b \in Req :
          (/\ a # b
           /\ req[a].pc = "body" /\ Answers(a)
           /\ cache'[CacheKey(route)] # cache[CacheKey(route)]
           /\ cache'[CacheKey(route)].val = req'[a].resp.val
           /\ req[b].pc = "done" /\ req[b].resp.status = 200
           /\ ~req[b].resp.cached /\ ~req[b].resp.mock
           /\ cache[CacheKey(route)].val = req[b].resp.val)
          => b \notin req[a].later]_vars

(***************************************************************************)
(* ParamSpec: two requests, each to any endpoint with any of a few query   *)
(* strings, taken through the head of their handler: parameter reading,    *)
(* validation and cache key.                                               *)
(***************************************************************************)
\* city: not given, empty, blanks only, and one name in three spellings.
Cities ==
    {Undefined, Str(<<>>), Str(<<" ", " ">>), Str(<<"P", "a", "r", "i", "s">>),
     Str(<<"p", "a", "r", "i", "s">>), Str(<<" ", "P", "A", "R", "I", "S", " ">>)}

\* lat: not given, empty, 0, 10 in two spellings, not a number, a negative fraction.
Lats ==
    {Undefined, Str(<<>>), Str(<<"0">>), Str(<<"1", "0">>), Str(<<"1", "0", ".", "0">>),
     Str(<<"a", "b", "c">>), Str(<<"-", "5", ".", "5">>)}

Lons == {Undefined, Str(<<"0">>), Str(<<"2", "0">>)}

\* latitude, read when lat is not given or empty.
Latitudes == {Undefined, Str(<<"1", "0">>)}

YearsParams == {Undefined, Str(<<"5">>)}

StepsParams == {Undefined, Str(<<"4">>), Str(<<"4", ".", "0">>)}

\* The query strings sent to endpoint e.
Queries(e) ==
    CASE e = "forecast" -> {[NoQuery EXCEPT !.city = c] : c \in Cities}
      [] e = "aq" ->
            {[NoQuery EXCEPT !.lat = la, !.latitude = al, !.lon = lo] :
                la \in Lats, al \in Latitudes, lo \in Lons}
      [] e = "climate" ->
            {[NoQuery EXCEPT !.lat = la, !.latitude = al, !.lon = lo, !.years = y] :
                la \in Lats, al \in Latitudes, lo \in Lons, y \in YearsParams}
      [] e = "marine" ->
            {[NoQuery EXCEPT !.lat = la, !.latitude = al, !.lon = lo,
                             !.forecast_minutely_15 = st] :
                la \in Lats, al \in Latitudes, lo \in Lons, st \in StepsParams}

ParamInit ==
    /\ req = [r \in Req |-> IdleSlot]
    /\ cache = [k \in {CacheKey(e) : e \in Endpoints} |-> Absent]
    /\ now = 0
    /\ ticks = 0
    /\ route = "forecast"
    /\ useMock = FALSE
    /\ call = NoCall
    /\ mar = NoMar
    /\ qry = NoQry

Handle(e, q) ==
    LET h == HandlerHead(e, q)
    IN [pc |-> "done", ep |-> e, query |-> q, status |-> h.status, key |-> h.key,
        looked |-> h.looked]

\* A request arrives and its handler runs up to the 400 answer or the cache
\* lookup.
Receive(e, q) ==
    /\ qry.b.pc = "none"
    /\ qry' = IF qry.a.pc = "none" THEN [qry EXCEPT !.a = Handle(e, q)]
              ELSE [qry EXCEPT !.b = Handle(e, q)]
    /\ UNCHANGED <<req, cache, now, ticks, route, useMock, call, mar>>

ParamNext ==
    /\ qry.b.pc = "none"
    /\ \E e \in Endpoints : \E q \in Queries(e) : Receive(e, q)

ParamSpec == ParamInit /\ [][ParamNext]_vars

(***************************************************************************)
(* Properties of validation and cache keys (ParamSpec).                    *)
(***************************************************************************)
\* The requests handled so far.
Handled == {h \in {qry.a, qry.b} : h.pc = "done"}

\* The coordinate a request supplies: lat, or latitude when lat is not given
\* or empty (lon likewise).
GivenLat(q) == IF q.lat.def /\ q.lat.s # <<>> THEN q.lat ELSE q.latitude
GivenLon(q) == IF q.lon.def /\ q.lon.s # <<>> THEN q.lon ELSE q.longitude

\* The decimal numerals among the parameter strings, with the number each
\* denotes, in tenths.
Numerals ==
    {<<"0">>, <<"1", "0">>, <<"1", "0", ".", "0">>, <<"-", "5", ".", "5">>, <<"2", "0">>,
     <<"4">>, <<"4", ".", "0">>, <<"5">>}
Tenths(s) ==
    CASE s = <<"0">> -> 0
      [] s \in {<<"1", "0">>, <<"1", "0", ".", "0">>} -> 100
      [] s = <<"-", "5", ".", "5">> -> -55
      [] s = <<"2", "0">> -> 200
      [] s \in {<<"4">>, <<"4", ".", "0">>} -> 40
      [] s = <<"5">> -> 50
IsNumeral(v) == v.def /\ v.s \in Numerals

\* city is missing, empty or blanks only.
BlankCity(q) == ~q.city.def \/ \A i \in 1..Len(q.city.s) : q.city.s[i] = " "

\* A required parameter of the request is missing or invalid.
BadRequest(h) ==
    IF h.ep = "forecast" THEN BlankCity(h.query)
    ELSE ~IsNumeral(GivenLat(h.query)) \/ ~IsNumeral(GivenLon(h.query))

\* C22: a request with a required parameter missing or invalid (city empty or
\* blank for forecast; lat or lon missing or not a number for air-quality,
\* climate and marine) is answered 400 before the cache is read.
C22_RejectsInvalid ==
    \A h \in Handled : BadRequest(h) => (h.status = 400 /\ ~h.looked)

\* C23: a request to air-quality, climate or marine whose lat or lon is 0 (the
\* other coordinate being a number) is not answered 400: its handler goes on
\* to the cache lookup.
C23_ZeroIsValid ==
    \A h \in Handled :
        (/\ h.ep \in {"aq", "climate", "marine"}
         /\ IsNumeral(GivenLat(h.query)) /\ IsNumeral(GivenLon(h.query))
         /\ (Tenths(GivenLat(h.query).s) = 0 \/ Tenths(GivenLon(h.query).s) = 0))
        => (h.status # 400 /\ h.looked /\ h.key # <<>>)

\* lat=0&lon=0 accepted by air-quality and by marine.
C23_Witness ==
    /\ qry.a.pc = "done" /\ qry.a.ep = "aq"
    /\ qry.b.pc = "done" /\ qry.b.ep = "marine"
    /\ \A h \in {qry.a, qry.b} :
          /\ h.query.lat = Str(<<"0">>) /\ h.query.lon = Str(<<"0">>)
          /\ h.status = 0 /\ h.looked

\* The names two city strings spell are the same (case and surrounding blanks
\* apart); two parameters denote the same number, or are both not given.
Paris == {Str(<<"P", "a", "r", "i", "s">>), Str(<<"p", "a", "r", "i", "s">>),
          Str(<<" ", "P", "A", "R", "I", "S", " ">>)}
SameCity(c, d) == c = d \/ (c \in Paris /\ d \in Paris)
SameNumber(v, w) ==
    \/ ~v.def /\ ~w.def
    \/ IsNumeral(v) /\ IsNumeral(w) /\ Tenths(v.s) = Tenths(w.s)

\* Two accepted requests to one endpoint that differ at most in spelling.
Equivalent(g, h) ==
    /\ g.ep = h.ep
    /\ g.status # 400 /\ h.status # 400
    /\ IF g.ep = "forecast" THEN SameCity(g.query.city, h.query.city)
       ELSE /\ SameNumber(GivenLat(g.query), GivenLat(h.query))
            /\ SameNumber(GivenLon(g.query), GivenLon(h.query))
            /\ SameNumber(g.query.years, h.query.years)
            /\ SameNumber(g.query.forecast_minutely_15, h.query.forecast_minutely_15)
            /\ SameNumber(g.query.past_minutely_15, h.query.past_minutely_15)

\* C24: equivalent requests to one endpoint (city names that differ in case or
\* surrounding blanks, coordinates and steps that denote the same numbers)
\* get the same cache key.
C24_EquivalentShareKey ==
    (qry.a.pc = "done" /\ qry.b.pc = "done" /\ Equivalent(qry.a, qry.b))
        => qry.a.key = qry.b.key
====
